---- MODULE Spec2Model ----
(***************************************************************************)
(* State-machine model of app.py (the "2026 Focus Scanner"): one scan is   *)
(* ClickRun, the fetch_safe_data loop (one FetchTicker step per distinct   *)
(* symbol), its return, run_strict_algorithm over the fetched snapshot,    *)
(* and the rendering of the banner and the top-picks list.                 *)
(*                                                                         *)
(* Numbers: pandas computes in floating point; the model computes the same *)
(* expressions exactly, as normalised fractions <<numerator, denominator>>.*)
(* A ticker is the sequence of its characters, so that replace('.', '-')   *)
(* is modelled by what it does.                                            *)
(***************************************************************************)
EXTENDS Integers, Sequences, FiniteSets, TLC

(***************************************************************************)
(* Bounds of the model.                                                    *)
(***************************************************************************)
\* a fetched series may end up to MaxLag days before the scan day
MaxLag == 1
\* a payload may carry up to MaxNulls rows whose close or volume is null
MaxNulls == 1
\* a payload may carry up to MaxExtra complete rows above the minimum
MaxExtra == 1

(***************************************************************************)
(* Program constants.                                                      *)
(***************************************************************************)
MinSamples == 22
VolFrom == 22
VolTo == 2
MaFrom == 21
MaTo == 1
AlphaPoints == 40
VolumePoints == 30
TrendPoints == 20
BreadthPoints == 10
GateCap == 59
PassingScore == 60
SectorThreshold == 80
PickLimit == 3
RVolThreshold == <<11, 10>>
TrendThreshold == <<1, 2>>
BreadthThreshold == <<1, 2>>
PickRVol == <<6, 5>>
BullishRatio == <<1, 2>>
ChoppyRatio == <<3, 10>>

(***************************************************************************)
(* Exact arithmetic standing for the float expressions of the source.      *)
(***************************************************************************)
Abs(x) == IF x < 0 THEN 0 - x ELSE x

RECURSIVE GCD(_, _)
GCD(a, b) == IF b = 0 THEN a ELSE GCD(b, a % b)

\* the fraction n/d (d # 0) in lowest terms with a positive denominator
Rat(n, d) ==
    LET g == GCD(Abs(n), Abs(d))
        s == IF d < 0 THEN 0 - 1 ELSE 1
    IN  <<(s * n) \div g, (s * d) \div g>>

RatInt(n) == <<n, 1>>
RatAdd(x, y) == Rat(x[1] * y[2] + y[1] * x[2], x[2] * y[2])
RatSub(x, y) == Rat(x[1] * y[2] - y[1] * x[2], x[2] * y[2])
RatDivInt(x, k) == Rat(x[1], x[2] * k)
RatGT(x, y) == x[1] * y[2] > y[1] * x[2]
RatLE(x, y) == ~RatGT(x, y)
RatGE(x, y) == x[1] * y[2] >= y[1] * x[2]

RECURSIVE SumSeq(_)
SumSeq(s) == IF s = <<>> THEN 0 ELSE Head(s) + SumSeq(Tail(s))

RECURSIVE RatSumSeq(_)
RatSumSeq(s) == IF s = <<>> THEN RatInt(0) ELSE RatAdd(Head(s), RatSumSeq(Tail(s)))

RECURSIVE CountTrue(_)
CountTrue(s) == IF s = <<>> THEN 0 ELSE (IF Head(s) THEN 1 ELSE 0) + CountTrue(Tail(s))

\* s.iloc[-from:-to] : the samples from the from-th last up to, excluding, the to-th last
ILocSlice(s, from, to) ==
    LET lo == IF Len(s) - from + 1 < 1 THEN 1 ELSE Len(s) - from + 1
        hi == Len(s) - to
    IN  IF hi < lo THEN <<>> ELSE SubSeq(s, lo, hi)

\* pandas mean of a column slice
Mean(s) == Rat(SumSeq(s), Len(s))

Column(df, col) == [i \in 1..Len(df) |-> df[i][col]]

(***************************************************************************)
(* The catalog.  PLAYBOOK is the source's table cut down to two sectors    *)
(* and three symbols, keeping its order, the symbol GOOG that two sectors  *)
(* share, and the dotted symbol SMT.L.                                     *)
(***************************************************************************)
AVGO == <<"A", "V", "G", "O">>
GOOG == <<"G", "O", "O", "G">>
SMT_L == <<"S", "M", "T", ".", "L">>
SPY == <<"S", "P", "Y">>

PLAYBOOK ==
    << [sector |-> "AI Custom Chips", tickers |-> <<AVGO, GOOG>>],
       [sector |-> "SpaceX Concepts", tickers |-> <<GOOG, SMT_L>>] >>

\* t.replace('.', '-')
Replace(t) == [i \in 1..Len(t) |-> IF t[i] = "." THEN "-" ELSE t[i]]

RECURSIVE Flatten(_)
Flatten(pb) ==
    IF pb = <<>> THEN <<>>
    ELSE [i \in 1..Len(Head(pb).tickers) |-> Replace(Head(pb).tickers[i])] \o Flatten(Tail(pb))

ALL_TICKERS == Flatten(PLAYBOOK) \o <<SPY>>

\* set(tickers)
SetOf(s) == {s[i] : i \in 1..Len(s)}

(***************************************************************************)
(* What the data provider can answer.  Today is the scan day.  A price     *)
(* profile gives the closes (all but the last two, yesterday, today), a    *)
(* volume profile the volumes (the 22nd last, the 21st..3rd last,          *)
(* yesterday, today).                                                      *)
(***************************************************************************)
Today == 40

UpAbove == [body |-> 10, prev |-> 10, curr |-> 11]
DownAbove == [body |-> 10, prev |-> 12, curr |-> 11]
DownBelow == [body |-> 10, prev |-> 10, curr |-> 9]

HighVol == [old |-> 10, body |-> 10, prev |-> 10, curr |-> 15]
LowVol == [old |-> 10, body |-> 10, prev |-> 10, curr |-> 8]
EdgeVol == [old |-> 10, body |-> 10, prev |-> 10, curr |-> 12]
OldVol == [old |-> 20, body |-> 0, prev |-> 0, curr |-> 5]
ZeroVol == [old |-> 0, body |-> 0, prev |-> 0, curr |-> 5]

\* n complete rows ending on day last
MkRows(n, last, p, v) ==
    [i \in 1..n |->
        [Date   |-> last - (n - i),
         Close  |-> IF i = n THEN p.curr ELSE IF i = n - 1 THEN p.prev ELSE p.body,
         Volume |-> IF i = n THEN v.curr
                    ELSE IF i = n - 1 THEN v.prev
                    ELSE IF i = n - 21 THEN v.old
                    ELSE v.body,
         null   |-> FALSE]]

\* k rows with a null close or volume, dated before the complete rows
NullRows(k, first) ==
    [i \in 1..k |-> [Date |-> first - (k - i) - 1, Close |-> 0, Volume |-> 0, null |-> TRUE]]

Payload(n, k, last, p, v) == NullRows(k, last - n + 1) \o MkRows(n, last, p, v)

Profiles ==
    { <<UpAbove, HighVol>>, <<DownBelow, LowVol>>, <<DownAbove, HighVol>>,
      <<UpAbove, EdgeVol>>, <<UpAbove, OldVol>>, <<DownBelow, ZeroVol>> }

OkResponses ==
    { [status |-> 200, kind |-> "ok", rows |-> Payload(MinSamples + 1, 0, Today, c[1], c[2])] :
        c \in Profiles }
    \cup
    { [status |-> 200, kind |-> "ok", rows |-> Payload(MinSamples + 1, 0, Today - g, UpAbove, HighVol)] :
        g \in 1..MaxLag }
    \cup
    { [status |-> 200, kind |-> "ok", rows |-> Payload(MinSamples + 1 + e, 0, Today, UpAbove, OldVol)] :
        e \in 1..MaxExtra }
    \cup
    { [status |-> 200, kind |-> "ok", rows |-> Payload(MinSamples + 1, k, Today, DownAbove, HighVol)] :
        k \in 1..MaxNulls }
    \cup
    { [status |-> 200, kind |-> "ok", rows |-> Payload(MinSamples, k, Today, UpAbove, HighVol)] :
        k \in 0..MaxNulls }

FailResponses ==
    { [status |-> 404, kind |-> "ok", rows |-> <<>>],
      [status |-> 200, kind |-> "raises", rows |-> <<>>],
      [status |-> 200, kind |-> "malformed", rows |-> <<>>] }

Responses == OkResponses \cup FailResponses

NoResponse == [status |-> 0, kind |-> "none", rows |-> <<>>]

(***************************************************************************)
(* State.                                                                  *)
(***************************************************************************)
VARIABLES
    pc,              \* position of the script
    unique_tickers,  \* symbols the fetch loop has still to visit
    attempts,        \* per symbol, how many requests were sent
    response,        \* per symbol, what the provider answered
    data_map,        \* symbol -> series, as built by fetch_safe_data
    sector_trace,    \* per sector, the locals of run_strict_algorithm
    df,              \* the rows returned by run_strict_algorithm
    banner,          \* what the scan reported: the market status or the error
    top_picks,       \* the rows shown as top picks
    picks_msg        \* "metrics", "info" or "none"

vars == <<pc, unique_tickers, attempts, response, data_map, sector_trace, df,
          banner, top_picks, picks_msg>>

Symbols == SetOf(ALL_TICKERS)

EmptyMap == [t \in {} |-> <<>>]

Init ==
    /\ pc = "idle"
    /\ unique_tickers = {}
    /\ attempts = [t \in Symbols |-> 0]
    /\ response = [t \in Symbols |-> NoResponse]
    /\ data_map = EmptyMap
    /\ sector_trace = <<>>
    /\ df = <<>>
    /\ banner = "none"
    /\ top_picks = <<>>
    /\ picks_msg = "none"

(***************************************************************************)
(* fetch_safe_data                                                         *)
(***************************************************************************)
\* pd.DataFrame({...}).dropna()
DropNa(rows) ==
    LET Keep(r) == ~r.null
        Strip(r) == [Date |-> r.Date, Close |-> r.Close, Volume |-> r.Volume]
    IN  [i \in 1..Len(SelectSeq(rows, Keep)) |-> Strip(SelectSeq(rows, Keep)[i])]

\* if len(df) > 22
EnoughSamples(frame) == Len(frame) > MinSamples

\* FetchOne with the length test made on the payload before dropna
FetchOne_RawLength(map, ticker, resp) ==
    IF resp.status = 200 /\ resp.kind = "ok" /\ EnoughSamples(resp.rows)
    THEN [t \in DOMAIN map \cup {ticker} |->
            IF t = ticker THEN DropNa(resp.rows) ELSE map[t]]
    ELSE map

\* the body of the try block: the entry the iteration adds, if any
FetchOne(map, ticker, resp) ==
    IF resp.status = 200 /\ resp.kind = "ok" /\ EnoughSamples(DropNa(resp.rows))
    THEN [t \in DOMAIN map \cup {ticker} |->
            IF t = ticker THEN DropNa(resp.rows) ELSE map[t]]
    ELSE map

\* the button: fetch_safe_data(ALL_TICKERS) starts
ClickRun ==
    /\ pc = "idle"
    /\ pc' = "fetching"
    /\ unique_tickers' = SetOf(ALL_TICKERS)
    /\ data_map' = EmptyMap
    /\ UNCHANGED <<attempts, response, sector_trace, df, banner, top_picks, picks_msg>>

\* one iteration of the loop over unique_tickers; set order is arbitrary
FetchTicker ==
    /\ pc = "fetching"
    /\ \E ticker \in unique_tickers, resp \in Responses :
        /\ attempts' = [attempts EXCEPT ![ticker] = @ + 1]
        /\ response' = [response EXCEPT ![ticker] = resp]
        /\ data_map' = FetchOne(data_map, ticker, resp)
        /\ unique_tickers' = unique_tickers \ {ticker}
    /\ UNCHANGED <<pc, sector_trace, df, banner, top_picks, picks_msg>>

\* the loop is over: progress_bar.empty(); return data_map
FetchReturn ==
    /\ pc = "fetching"
    /\ unique_tickers = {}
    /\ pc' = "fetched"
    /\ UNCHANGED <<unique_tickers, attempts, response, data_map, sector_trace, df,
                   banner, top_picks, picks_msg>>

(***************************************************************************)
(* run_strict_algorithm                                                    *)
(***************************************************************************)
\* df['Date'].iloc[-1].date()
LastDate(frame) == frame[Len(frame)].Date

\* (curr['Close'] - prev['Close']) / prev['Close'] * 100
ChangePct(frame) ==
    LET curr == frame[Len(frame)]
        prev == frame[Len(frame) - 1]
    IN  Rat((curr.Close - prev.Close) * 100, prev.Close)

\* IsStale with the date check left out
IsStale_Never(frame, spy_today_date) == FALSE

\* if stock_date != spy_today_date: continue
IsStale(frame, spy_today_date) == LastDate(frame) # spy_today_date

\* df['Volume'].iloc[-22:-2]
VolumeWindow(frame) == ILocSlice(Column(frame, "Volume"), VolFrom, VolTo)

\* df['Close'].iloc[-21:-1]
CloseWindow(frame) == ILocSlice(Column(frame, "Close"), MaFrom, MaTo)

\* curr['Volume'] / avg_vol if avg_vol > 0 else 0
RelVolume(curr_volume, avg_vol) ==
    IF RatGT(avg_vol, RatInt(0))
    THEN Rat(curr_volume * avg_vol[2], avg_vol[1])
    ELSE RatInt(0)

\* the individual stock score
StockScore(alpha_val, rvol, price_above_ma, change_pct) ==
      (IF RatGT(alpha_val, RatInt(0)) THEN AlphaPoints ELSE 0)
    + (IF RatGT(rvol, RVolThreshold) THEN VolumePoints ELSE 0)
    + (IF price_above_ma THEN TrendPoints ELSE 0)
    + (IF RatGT(change_pct, RatInt(0)) THEN BreadthPoints ELSE 0)

\* the metrics of one stock that passed the date check
StockMetrics(t, frame, spy_change) ==
    LET curr == frame[Len(frame)]
        change_pct == ChangePct(frame)
        alpha_val == RatSub(change_pct, spy_change)
        avg_vol == Mean(VolumeWindow(frame))
        rvol == RelVolume(curr.Volume, avg_vol)
        sma20 == Mean(CloseWindow(frame))
        price_above_ma == RatGT(RatInt(curr.Close), sma20)
    IN  [Ticker |-> t, Alpha |-> alpha_val, RVol |-> rvol, Above_MA |-> price_above_ma,
         HeatScore |-> StockScore(alpha_val, rvol, price_above_ma, change_pct),
         ChangePct |-> change_pct, Price |-> curr.Close,
         avg_vol |-> avg_vol, sma20 |-> sma20]

\* the loop over a sector's tickers: the sector_scores list
RECURSIVE SectorScores(_, _, _, _)
SectorScores(tickers, map, spy_today_date, spy_change) ==
    IF tickers = <<>> THEN <<>>
    ELSE LET t == Head(tickers)
             clean_t == Replace(t)
             rest == SectorScores(Tail(tickers), map, spy_today_date, spy_change)
         IN  IF clean_t \notin DOMAIN map THEN rest
             ELSE IF IsStale(map[clean_t], spy_today_date) THEN rest
             ELSE <<StockMetrics(t, map[clean_t], spy_change)>> \o rest

\* RawScore with the trend and breadth comparisons not strict
RawScore_NonStrict(avg_alpha, avg_rvol, avg_trend, pct_green) ==
      (IF RatGT(avg_alpha, RatInt(0)) THEN AlphaPoints ELSE 0)
    + (IF RatGT(avg_rvol, RVolThreshold) THEN VolumePoints ELSE 0)
    + (IF RatGE(avg_trend, TrendThreshold) THEN TrendPoints ELSE 0)
    + (IF RatGE(pct_green, BreadthThreshold) THEN BreadthPoints ELSE 0)

\* the four comparisons of the sector score
RawScore(avg_alpha, avg_rvol, avg_trend, pct_green) ==
      (IF RatGT(avg_alpha, RatInt(0)) THEN AlphaPoints ELSE 0)
    + (IF RatGT(avg_rvol, RVolThreshold) THEN VolumePoints ELSE 0)
    + (IF RatGT(avg_trend, TrendThreshold) THEN TrendPoints ELSE 0)
    + (IF RatGT(pct_green, BreadthThreshold) THEN BreadthPoints ELSE 0)

Min(a, b) == IF a < b THEN a ELSE b

\* HardGate without the cap
HardGate_NoGate(score, pct_green) == score

\* HardGate capping whatever the breadth
HardGate_CapAlways(score, pct_green) == Min(score, GateCap)

\* if pct_green <= 0.5: score = min(score, 59)
HardGate(score, pct_green) ==
    IF RatLE(pct_green, BreadthThreshold) THEN Min(score, GateCap) ELSE score

\* one pass of the loop over PLAYBOOK: the locals at the end of the pass
SectorPass(entry, map, spy_today_date, spy_change) ==
    LET sector_scores == SectorScores(entry.tickers, map, spy_today_date, spy_change)
        total_stocks == Len(sector_scores)
        green_stocks == CountTrue([i \in 1..total_stocks |->
                                      RatGT(sector_scores[i].ChangePct, RatInt(0))])
    IN  IF total_stocks > 0
        THEN LET avg_alpha == RatDivInt(RatSumSeq(Column(sector_scores, "Alpha")), total_stocks)
                 avg_rvol == RatDivInt(RatSumSeq(Column(sector_scores, "RVol")), total_stocks)
                 avg_trend == Rat(CountTrue(Column(sector_scores, "Above_MA")), total_stocks)
                 pct_green == Rat(green_stocks, total_stocks)
                 raw == RawScore(avg_alpha, avg_rvol, avg_trend, pct_green)
             IN  [sector |-> entry.sector, sector_scores |-> sector_scores,
                  total_stocks |-> total_stocks, green_stocks |-> green_stocks,
                  scored |-> TRUE, avg_alpha |-> avg_alpha, avg_rvol |-> avg_rvol,
                  avg_trend |-> avg_trend, pct_green |-> pct_green, raw |-> raw,
                  score |-> HardGate(raw, pct_green)]
        ELSE [sector |-> entry.sector, sector_scores |-> sector_scores,
              total_stocks |-> total_stocks, green_stocks |-> green_stocks,
              scored |-> FALSE, avg_alpha |-> RatInt(0), avg_rvol |-> RatInt(0),
              avg_trend |-> RatInt(0), pct_green |-> RatInt(0), raw |-> 0, score |-> 0]

\* the rows a pass appends to results
SectorRows(pass) ==
    IF pass.scored
    THEN [i \in 1..Len(pass.sector_scores) |->
            [Sector |-> pass.sector,
             Ticker |-> pass.sector_scores[i].Ticker,
             HeatScore |-> pass.score,
             StockScore |-> pass.sector_scores[i].HeatScore,
             RVol |-> pass.sector_scores[i].RVol,
             ChangePct |-> pass.sector_scores[i].ChangePct,
             Price |-> pass.sector_scores[i].Price]]
    ELSE <<>>

RECURSIVE Concat(_)
Concat(ss) == IF ss = <<>> THEN <<>> ELSE Head(ss) \o Concat(Tail(ss))

\* the passes of the loop over PLAYBOOK; none when SPY is missing
Passes(map) ==
    IF SPY \notin DOMAIN map THEN <<>>
    ELSE LET spy == map[SPY]
             spy_today_date == LastDate(spy)
             spy_change == ChangePct(spy)
         IN  [i \in 1..Len(PLAYBOOK) |-> SectorPass(PLAYBOOK[i], map, spy_today_date, spy_change)]

\* the returned frame
run_strict_algorithm(map) ==
    LET passes == Passes(map)
    IN  Concat([i \in 1..Len(passes) |-> SectorRows(passes[i])])

RunAlgorithm ==
    /\ pc = "fetched"
    /\ pc' = "scored"
    /\ sector_trace' = Passes(data_map)
    /\ df' = run_strict_algorithm(data_map)
    /\ UNCHANGED <<unique_tickers, attempts, response, data_map, banner, top_picks, picks_msg>>

(***************************************************************************)
(* The scan handler: banner and top picks.                                 *)
(***************************************************************************)
\* df.groupby('Sector')['Heat Score'].first()
SectorsOf(frame) == {frame[i].Sector : i \in 1..Len(frame)}

FirstScore(frame, sector) ==
    frame[CHOOSE i \in 1..Len(frame) :
            /\ frame[i].Sector = sector
            /\ \A j \in 1..(i - 1) : frame[j].Sector # sector].HeatScore

\* the market status chosen from the share of sectors scoring 60 or more
MarketStatus(frame) ==
    LET unique_sectors == SectorsOf(frame)
        passing_sectors == Cardinality({x \in unique_sectors : FirstScore(frame, x) >= PassingScore})
        total_sectors == Cardinality(unique_sectors)
        ratio == Rat(passing_sectors, total_sectors)
    IN  IF RatGT(ratio, BullishRatio) THEN "bullish"
        ELSE IF RatGT(ratio, ChoppyRatio) THEN "choppy"
        ELSE "defensive"

\* PassesFilter with the volume comparison not strict
PassesFilter_NonStrict(row) == row.HeatScore >= SectorThreshold /\ RatGE(row.RVol, PickRVol)

\* (df['Heat Score'] >= 80) & (df['RVol'] > 1.2)
PassesFilter(row) == row.HeatScore >= SectorThreshold /\ RatGT(row.RVol, PickRVol)

FilterPicks(frame) == SelectSeq(frame, PassesFilter)

\* the orders sort_values('RVol', ascending=False) may return: the default
\* sort is not stable, so rows of equal RVol come in any order
SortValues(frame) ==
    LET n == Len(frame)
        Perms == {f \in [1..n -> 1..n] : \A i, j \in 1..n : i # j => f[i] # f[j]}
    IN  { [i \in 1..n |-> frame[f[i]]] :
            f \in {g \in Perms : \A i \in 1..(n - 1) :
                                    RatGE(frame[g[i]].RVol, frame[g[i + 1]].RVol)} }

\* .head(3)
HeadRows(frame, limit) == SubSeq(frame, 1, Min(Len(frame), limit))

\* the branch "if not df.empty"
RenderResults ==
    /\ pc = "scored"
    /\ df # <<>>
    /\ pc' = "rendered"
    /\ banner' = MarketStatus(df)
    /\ \E sorted \in SortValues(FilterPicks(df)) :
        top_picks' = HeadRows(sorted, PickLimit)
    /\ picks_msg' = IF top_picks' # <<>> THEN "metrics" ELSE "info"
    /\ UNCHANGED <<unique_tickers, attempts, response, data_map, sector_trace, df>>

\* RenderFailure reporting an empty result as a defensive market
RenderFailure_ZeroMarket ==
    /\ pc = "scored"
    /\ df = <<>>
    /\ pc' = "rendered"
    /\ banner' = "defensive"
    /\ UNCHANGED <<unique_tickers, attempts, response, data_map, sector_trace, df,
                   top_picks, picks_msg>>

\* the else branch: st.error("Connection Failed. ...")
RenderFailure ==
    /\ pc = "scored"
    /\ df = <<>>
    /\ pc' = "rendered"
    /\ banner' = "failed"
    /\ UNCHANGED <<unique_tickers, attempts, response, data_map, sector_trace, df,
                   top_picks, picks_msg>>

Next ==
    \/ ClickRun
    \/ FetchTicker
    \/ FetchReturn
    \/ RunAlgorithm
    \/ RenderResults
    \/ RenderFailure

Spec == Init /\ [][Next]_vars

(***************************************************************************)
(* Properties.                                                             *)
(***************************************************************************)
Scored == pc \in {"scored", "rendered"}

Tens == {0, 10, 20, 30, 40, 50, 60, 70, 80, 90, 100}

RowsOfSector(sector) == {i \in 1..Len(df) : df[i].Sector = sector}

GreenRowsOfSector(sector) ==
    {i \in RowsOfSector(sector) : df[i].ChangePct[1] > 0}

\* pctGreen <= 0.5, counted on the rows of the sector
HalfOrLessGreen(sector) ==
    2 * Cardinality(GreenRowsOfSector(sector)) <= Cardinality(RowsOfSector(sector))

C2_Original ==
    Scored => \A i \in 1..Len(df) :
                df[i].HeatScore \in Tens /\ df[i].StockScore \in Tens

\* C2 as amended: every stock score is a multiple of ten between 0 and 100,
\* and every sector score is one too or is exactly 59, the latter only in a
\* sector of which at most half of the qualifying stocks are green.
C2_ScoreBounds ==
    Scored => \A i \in 1..Len(df) :
                /\ df[i].StockScore \in Tens
                /\ \/ df[i].HeatScore \in Tens
                   \/ df[i].HeatScore = 59 /\ HalfOrLessGreen(df[i].Sector)

\* one sector capped at 59 next to an ungated sector scoring 100
C2_Witness ==
    /\ Scored
    /\ \E i, j \in 1..Len(df) :
        /\ df[i].HeatScore = 59
        /\ df[j].HeatScore = 100
        /\ df[j].StockScore = 100

HasSeries(t) == Replace(t) \in DOMAIN data_map

TickersOf(entry) == {entry.tickers[i] : i \in 1..Len(entry.tickers)}

\* C3 as stated: when SPY is missing from the snapshot the scan is not
\* aborted: every sector with at least one available series has rows, one
\* for each of its stocks that has a series (none is excluded for its
\* date), and the scan is not reported as failed.
C3_BenchmarkDegraded ==
    (Scored /\ SPY \notin DOMAIN data_map) =>
        /\ \A k \in 1..Len(PLAYBOOK) :
            (\E t \in TickersOf(PLAYBOOK[k]) : HasSeries(t)) =>
                /\ RowsOfSector(PLAYBOOK[k].sector) # {}
                /\ \A t \in TickersOf(PLAYBOOK[k]) :
                    HasSeries(t) => \E i \in RowsOfSector(PLAYBOOK[k].sector) : df[i].Ticker = t
        /\ pc = "rendered" /\ (\E t \in Symbols : t \in DOMAIN data_map) => banner # "failed"

Fresh(t) == HasSeries(t) /\ LastDate(data_map[Replace(t)]) = LastDate(data_map[SPY])

FreshIdx(entry) == {i \in 1..Len(entry.tickers) : Fresh(entry.tickers[i])}

RECURSIVE RatSumOver(_, _)
RatSumOver(S, f) ==
    IF S = {} THEN RatInt(0)
    ELSE LET x == CHOOSE y \in S : TRUE
         IN  RatAdd(f[x], RatSumOver(S \ {x}, f))

\* the metrics of the i-th ticker of a sector, from its series in data_map
MetricsAt(entry, i) ==
    StockMetrics(entry.tickers[i], data_map[Replace(entry.tickers[i])], ChangePct(data_map[SPY]))

\* C4: staleness guard: with SPY present, a stock whose latest date is not
\* SPY's latest date has no row, is not counted in total_stocks or
\* green_stocks and does not enter avgAlpha, avgRelVolume, avgAboveMA or
\* pctGreen; every row belongs to a stock dated as SPY.
C4_StalenessGuard ==
    (Scored /\ SPY \in DOMAIN data_map) =>
        /\ \A k \in 1..Len(PLAYBOOK) :
            LET entry == PLAYBOOK[k]
                pass == sector_trace[k]
                F == FreshIdx(entry)
                n == Cardinality(F)
            IN  /\ \A t \in TickersOf(entry) :
                    (HasSeries(t) /\ ~Fresh(t)) =>
                        \A i \in RowsOfSector(entry.sector) : df[i].Ticker # t
                /\ pass.total_stocks = n
                /\ pass.green_stocks =
                     Cardinality({i \in F : MetricsAt(entry, i).ChangePct[1] > 0})
                /\ n > 0 =>
                    /\ pass.avg_alpha =
                         RatDivInt(RatSumOver(F, [i \in F |-> MetricsAt(entry, i).Alpha]), n)
                    /\ pass.avg_rvol =
                         RatDivInt(RatSumOver(F, [i \in F |-> MetricsAt(entry, i).RVol]), n)
                    /\ pass.avg_trend =
                         Rat(Cardinality({i \in F : MetricsAt(entry, i).Above_MA}), n)
                    /\ pass.pct_green =
                         Rat(Cardinality({i \in F : MetricsAt(entry, i).ChangePct[1] > 0}), n)
        /\ \A i \in 1..Len(df) : Fresh(df[i].Ticker)

\* a scored sector with one stale stock left out and one fresh stock kept
C4_Witness ==
    /\ Scored
    /\ SPY \in DOMAIN data_map
    /\ \E k \in 1..Len(PLAYBOOK) :
        /\ \E t \in TickersOf(PLAYBOOK[k]) : HasSeries(t) /\ ~Fresh(t)
        /\ \E t \in TickersOf(PLAYBOOK[k]) : Fresh(t)
        /\ sector_trace[k].total_stocks = 1
        /\ Cardinality(RowsOfSector(PLAYBOOK[k].sector)) = 1

\* the n samples immediately preceding the latest sample
Preceding(s, n) == SubSeq(s, Len(s) - n, Len(s) - 1)

AllMetrics ==
    UNION {SetOf(sector_trace[k].sector_scores) : k \in 1..Len(sector_trace)}

SeriesOf(m) == data_map[Replace(m.Ticker)]

\* C5 as stated: for every qualifying stock, avgVolume is the mean volume of
\* the 20 samples immediately preceding the latest one, and the moving
\* average is the mean close of the same 20 samples.
C5_TrailingWindow ==
    Scored => \A m \in AllMetrics :
                /\ m.avg_vol = Mean(Preceding(Column(SeriesOf(m), "Volume"), 20))
                /\ m.sma20 = Mean(Preceding(Column(SeriesOf(m), "Close"), 20))

\* C6 as stated: for every qualifying stock, relVolume is 0 when the mean
\* volume of the 20 samples immediately preceding the latest one is 0, and
\* latestVolume divided by that mean otherwise.
C6_ZeroGuard ==
    Scored => \A m \in AllMetrics :
                LET avg == Mean(Preceding(Column(SeriesOf(m), "Volume"), 20))
                    latest == SeriesOf(m)[Len(SeriesOf(m))].Volume
                IN  IF avg[1] = 0 THEN m.RVol = RatInt(0)
                    ELSE m.RVol = Rat(latest * avg[2], avg[1])

Indicator(b, points) == IF b THEN points ELSE 0

\* C7: sector score formula: the score of a sector with qualifying stocks is
\* 40*[avgAlpha>0] + 30*[avgRelVolume>1.10] + 20*[avgAboveMA>0.5] +
\* 10*[pctGreen>0.5] over its qualifying stocks, all comparisons strict,
\* then gated; every row of the sector carries the gated score.
C7_SectorFormula ==
    Scored => \A k \in 1..Len(sector_trace) :
        LET pass == sector_trace[k]
            Q == pass.sector_scores
            n == Len(Q)
            I == 1..n
            sumAlpha == RatSumOver(I, [i \in I |-> Q[i].Alpha])
            sumRVol == RatSumOver(I, [i \in I |-> Q[i].RVol])
            above == Cardinality({i \in I : Q[i].Above_MA})
            green == Cardinality({i \in I : Q[i].ChangePct[1] > 0})
            formula ==   Indicator(sumAlpha[1] > 0, 40)
                       + Indicator(10 * sumRVol[1] > 11 * n * sumRVol[2], 30)
                       + Indicator(2 * above > n, 20)
                       + Indicator(2 * green > n, 10)
            gated == IF 2 * green <= n /\ formula > 59 THEN 59 ELSE formula
        IN  /\ n = 0 => RowsOfSector(pass.sector) = {}
            /\ n > 0 =>
                /\ pass.raw = formula
                /\ Cardinality(RowsOfSector(pass.sector)) = n
                /\ \A i \in RowsOfSector(pass.sector) : df[i].HeatScore = gated

\* the scenario of the specification: two stocks, average alpha negative,
\* average relative volume 1.15, one above its average, one green: 30
C7_Witness ==
    /\ Scored
    /\ \E k \in 1..Len(sector_trace) :
        /\ sector_trace[k].total_stocks = 2
        /\ sector_trace[k].avg_alpha[1] < 0
        /\ sector_trace[k].avg_rvol = <<23, 20>>
        /\ sector_trace[k].avg_trend = <<1, 2>>
        /\ sector_trace[k].pct_green = <<1, 2>>
        /\ \A i \in RowsOfSector(sector_trace[k].sector) : df[i].HeatScore = 30

\* a stock of the sector that has a series and is not stale
Qualifies(t) == HasSeries(t) /\ (SPY \in DOMAIN data_map => Fresh(t))

\* C8: qualification: a sector without a qualifying stock has no row, every
\* sector with a row has a qualifying stock, and when no sector has one the
\* result is empty and the scan is reported as failed, not as a market.
C8_Qualification ==
    Scored =>
        /\ \A k \in 1..Len(PLAYBOOK) :
            (\A t \in TickersOf(PLAYBOOK[k]) : ~Qualifies(t)) =>
                RowsOfSector(PLAYBOOK[k].sector) = {}
        /\ \A i \in 1..Len(df) :
            \E k \in 1..Len(PLAYBOOK) :
                /\ PLAYBOOK[k].sector = df[i].Sector
                /\ \E t \in TickersOf(PLAYBOOK[k]) : Qualifies(t)
        /\ (\A k \in 1..Len(PLAYBOOK) : \A t \in TickersOf(PLAYBOOK[k]) : ~Qualifies(t)) =>
            /\ df = <<>>
            /\ pc = "rendered" =>
                /\ banner = "failed"
                /\ top_picks = <<>>
                /\ picks_msg = "none"

\* SPY and some stocks were fetched, every stock is stale, the scan failed
C8_Witness ==
    /\ pc = "rendered"
    /\ SPY \in DOMAIN data_map
    /\ \E t \in TickersOf(PLAYBOOK[1]) : HasSeries(t)
    /\ \A k \in 1..Len(PLAYBOOK) : \A t \in TickersOf(PLAYBOOK[k]) : ~Qualifies(t)
    /\ banner = "failed"

RowIdx(row) == {i \in 1..Len(df) : df[i] = row}

PickSet == SetOf(top_picks)

\* C9: result ranker: at most 3 picks, each a row with sector score >= 80
\* and relVolume strictly above 1.2, in non-increasing relVolume order; no
\* row left out that passes the filter has a larger relVolume than a pick;
\* an empty list is reported as "no picks", not as an error.
C9_Ranker ==
    (pc = "rendered" /\ df # <<>>) =>
        /\ Len(top_picks) <= 3
        /\ \A i, j \in 1..Len(top_picks) : i # j => top_picks[i] # top_picks[j]
        /\ \A i \in 1..Len(top_picks) :
            /\ RowIdx(top_picks[i]) # {}
            /\ top_picks[i].HeatScore >= 80
            /\ 5 * top_picks[i].RVol[1] > 6 * top_picks[i].RVol[2]
        /\ \A i \in 1..(Len(top_picks) - 1) :
            top_picks[i].RVol[1] * top_picks[i + 1].RVol[2]
                >= top_picks[i + 1].RVol[1] * top_picks[i].RVol[2]
        /\ \A i \in 1..Len(df) :
            (/\ df[i] \notin PickSet
             /\ df[i].HeatScore >= 80
             /\ 5 * df[i].RVol[1] > 6 * df[i].RVol[2]) =>
                /\ Len(top_picks) = 3
                /\ \A j \in 1..Len(top_picks) :
                    df[i].RVol[1] * top_picks[j].RVol[2] <= top_picks[j].RVol[1] * df[i].RVol[2]
        /\ top_picks = <<>> => (picks_msg = "info" /\ banner # "failed")
        /\ top_picks # <<>> => picks_msg = "metrics"

\* four rows pass the filter and three are picked, the largest relVolume
\* first
C9_Witness ==
    /\ pc = "rendered"
    /\ Len(FilterPicks(df)) = 4
    /\ Len(top_picks) = 3
    /\ RatGT(top_picks[1].RVol, top_picks[3].RVol)

\* the fetch of a symbol succeeded: status 200, a well-formed payload and
\* more than 22 rows without a null
Succeeded(resp) ==
    /\ resp.status = 200
    /\ resp.kind = "ok"
    /\ Cardinality({i \in 1..Len(resp.rows) : ~resp.rows[i].null}) > 22

Visited == Symbols \ unique_tickers

\* what holds of the fetch loop at every point of it and after it
FetchState ==
    pc # "idle" =>
        /\ \A t \in Visited : attempts[t] = 1
        /\ \A t \in unique_tickers : attempts[t] = 0
        /\ DOMAIN data_map = {t \in Visited : Succeeded(response[t])}
        /\ \A t \in DOMAIN data_map :
            /\ Len(data_map[t]) > 22
            /\ data_map[t] =
                 [i \in 1..Len(data_map[t]) |->
                    LET r == response[t].rows[i + (Len(response[t].rows) - Len(data_map[t]))]
                    IN  [Date |-> r.Date, Close |-> r.Close, Volume |-> r.Volume]]
        /\ pc # "fetching" => Visited = Symbols
        /\ pc = "fetching" => ENABLED (FetchTicker \/ FetchReturn)

\* an iteration leaves the entries of the other symbols as they are, and
\* whatever the answer, the loop goes on with one symbol less to visit
FetchStep ==
    /\ \A t \in DOMAIN data_map : t \in DOMAIN data_map' /\ data_map'[t] = data_map[t]
    /\ (pc = "fetching" /\ unique_tickers' # unique_tickers) =>
        /\ pc' = "fetching"
        /\ Cardinality(unique_tickers') = Cardinality(unique_tickers) - 1

====
